---- MODULE Spec2Model ----
(***************************************************************************)
(* Model of the GPS image API (src/main.py): the /generate-image handler,  *)
(* the renderer generate_placeholder_image, the data synthesis             *)
(* generate_gps_data, and draw_information_panels with its chart, colour   *)
(* and font helpers.                                                       *)
(*                                                                         *)
(* Numbers.  Floats are modelled in fixed point:                           *)
(*   latitude, longitude   in hundredths of a degree                       *)
(*   scalar                in thousandths                                  *)
(*   temperature           in tenths of a degree Celsius                   *)
(*   series values         in hundredths of their unit                     *)
(* A query value is a record [k, v]: k = "num" carries the value v, the    *)
(* other kinds are the floats and strings that are no finite small number: *)
(* "nan", "inf", "huge" (finite, but scalar * 100 overflows to inf),       *)
(* "tiny" (negative, of a magnitude far below the resolution of a float    *)
(* sum) and "text" (a query string that is no float).                      *)
(*                                                                         *)
(* The process-wide generator of Python's random module is the variable    *)
(* rng.  Its Mersenne Twister is replaced by a small                       *)
(* counter-based generator: what the model keeps is that random.seed(n)  *)
(* sets the state as a function of abs(n) alone and that every draw reads  *)
(* and advances the one shared state.                                      *)
(***************************************************************************)
EXTENDS Integers, Sequences, FiniteSets, TLC

VARIABLES
    rng,        \* state of the module-global random generator
    req,        \* the request being handled: [lat, lon, scalar]
    data,       \* gps_data of the current render (generate_gps_data's dict)
    series,     \* the five chart series of the current render
    probe,      \* sequential renders: the triple whose outputs are compared
    probeOut,   \* sequential renders: outputs observed so far for probe
    probeCount, \* sequential renders: completed renders of probe
    between,    \* sequential renders: another render ran after probe's first
    calls,      \* sequential renders: render calls made so far
    treq,       \* parallel renders: the request of each thread
    tpc,        \* parallel renders: steps each thread has taken
    tdata,      \* parallel renders: metric values each thread has drawn
    tseries,    \* parallel renders: series each thread has drawn
    pc,         \* position of the /generate-image handler
    status,     \* HTTP status of the response (0: none yet)
    body,       \* the response body: the encoded image
    entered,    \* generate_placeholder_image was called
    cairo,      \* what "import cairosvg" does in this process
    fonts,      \* the font handles get_font returned
    boxes,      \* the panels drawn so far, with their bounding boxes
    step,       \* what the last step of the render did
    call,       \* helper called on its own: the call's arguments
    out         \* helper called on its own: its result

vars == <<rng, req, data, series, probe, probeOut, probeCount, between, calls,
          treq, tpc, tdata, tseries, pc, status, body, entered, cairo, fonts,
          boxes, step, call, out>>

apiVars == <<pc, status, body, entered, cairo, fonts, boxes, step>>
pureVars == <<call, out>>

seqVars == <<probe, probeOut, probeCount, between, calls>>
parVars == <<treq, tpc, tdata, tseries>>

----------------------------------------------------------------------------
(* Bounds of the model *)

\* sequential render calls explored in one behaviour
MaxCalls == 3

----------------------------------------------------------------------------
(* Values *)

Num(v) == [k |-> "num", v |-> v]
NaN == [k |-> "nan", v |-> 0]
Inf == [k |-> "inf", v |-> 0]
Huge == [k |-> "huge", v |-> 0]
Text == [k |-> "text", v |-> 0]
\* a negative scalar so small (-1e-22, say) that scalar * 100 vanishes when it is
\* added to a nonzero float
Tiny == [k |-> "tiny", v |-> 0]

IsNum(x) == x.k = "num"

Abs(n) == IF n < 0 THEN -n ELSE n

\* int(x) of a quotient a / b, b > 0: truncation toward zero
TruncDiv(a, b) == IF a >= 0 THEN a \div b ELSE -((-a) \div b)

NoData == [height |-> -1, fire_risk |-> -1, landslide_risk |-> -1, slope |-> -1,
           temperature |-> -1, rain_probability |-> -1, wind_speed |-> -1]

----------------------------------------------------------------------------
(* The random module *)

RngMod == 65537

RngInit == {0, 4242}

\* one step of the generator
RngStep(s) == (s + 40503) % RngMod

\* the state n steps after s
RngAfter(s, n) == (s + n * 40503) % RngMod

\* the number in 0..RngMod-1 a draw in state s is computed from
RngOutput(s) == ((s % 251) * (s % 241) * 7 + s * 31) % RngMod

\* random.seed(n): for an int the state depends on abs(n) only
random_seed(n) == ((Abs(n) % RngMod) * 31 + 7) % RngMod

\* random.randint(a, b) drawn in state s (the state after it is RngStep(s))
randint(s, a, b) == a + (RngOutput(RngStep(s)) % (b - a + 1))

\* random.uniform(a, b) drawn in state s, in hundredths
uniform(s, a, b) == a * 100 + (((b - a) * 100 * RngOutput(RngStep(s))) \div RngMod)

\* round(x, 1) of a value in hundredths, in tenths
round1(h) == (h + 5) \div 10

----------------------------------------------------------------------------
(* generate_gps_data *)

\* the argument of random.seed in generate_gps_data:
\* int((latitude * 1000 + longitude * 1000 + scalar * 100) % 1000).
\* lat, lon in hundredths and scalar in thousandths give the sum in tenths.
\* scalar * 100 is inf or nan for a huge, infinite or nan scalar, the float
\* remainder is then nan, and int(nan) raises ValueError.
\* For a tiny negative scalar the sum is latitude * 1000 + longitude * 1000
\* when that is nonzero; when it is zero the sum is the tiny negative number
\* itself, whose float remainder modulo 1000 rounds to 1000.0.
MetricSeed(lat, lon, scalar) ==
    IF IsNum(scalar)
    THEN [ok |-> TRUE,
          seed |-> ((100 * lat.v + 100 * lon.v + scalar.v) % 10000) \div 10]
    ELSE IF scalar = Tiny
    THEN [ok |-> TRUE,
          seed |-> IF 100 * lat.v + 100 * lon.v = 0
                   THEN 1000
                   ELSE ((100 * lat.v + 100 * lon.v) % 10000) \div 10]
    ELSE [ok |-> FALSE, seed |-> 0]

\* the fields in the order the data model lists them
MetricOrderListed == <<"fire_risk", "landslide_risk", "height", "slope",
                       "temperature", "rain_probability", "wind_speed">>

\* the order in which generate_gps_data draws its fields
MetricOrder == <<"height", "fire_risk", "landslide_risk", "slope",
                 "temperature", "rain_probability", "wind_speed">>

\* the draw of one field in generator state s
DrawMetric(s, field) ==
    CASE field = "height"           -> randint(s, 0, 300)
      [] field = "fire_risk"        -> randint(s, 0, 5)
      [] field = "landslide_risk"   -> randint(s, 0, 5)
      [] field = "slope"            -> randint(s, 0, 100)
      [] field = "temperature"      -> round1(uniform(s, 20, 42))
      [] field = "rain_probability" -> randint(s, 0, 100)
      [] field = "wind_speed"       -> randint(s, 0, 25)

\* the dict built from the seven values in draw order
MetricDict(vals) ==
    [height |-> vals[1], fire_risk |-> vals[2], landslide_risk |-> vals[3],
     slope |-> vals[4], temperature |-> vals[5], rain_probability |-> vals[6],
     wind_speed |-> vals[7]]

\* generate_gps_data ignoring its seed: draws from the generator as it stands
generate_gps_data_noseed(s, lat, lon, scalar) ==
    LET ms == MetricSeed(lat, lon, scalar)
    IN  IF ~ms.ok
        THEN [err |-> "ValueError", rng |-> s, data |-> NoData]
        ELSE [err |-> "none", rng |-> RngAfter(s, 7),
              data |-> MetricDict([i \in 1..7 |->
                           DrawMetric(RngAfter(s, i - 1), MetricOrder[i])])]

\* the dict with the height and fire_risk values under each other's key
MetricDictSwapped(vals) ==
    [height |-> vals[2], fire_risk |-> vals[1], landslide_risk |-> vals[3],
     slope |-> vals[4], temperature |-> vals[5], rain_probability |-> vals[6],
     wind_speed |-> vals[7]]

\* generate_gps_data returning height and fire_risk under each other's key
generate_gps_data_swapped(s, lat, lon, scalar) ==
    LET ms == MetricSeed(lat, lon, scalar)
        s0 == random_seed(ms.seed)
    IN  IF ~ms.ok
        THEN [err |-> "ValueError", rng |-> s, data |-> NoData]
        ELSE [err |-> "none", rng |-> RngAfter(s0, 7),
              data |-> MetricDictSwapped([i \in 1..7 |->
                           DrawMetric(RngAfter(s0, i - 1), MetricOrder[i])])]

\* generate_gps_data called with the generator in state s: the error it
\* raises ("none" when it returns), the generator state it leaves and its dict
generate_gps_data(s, lat, lon, scalar) ==
    LET ms == MetricSeed(lat, lon, scalar)
        s0 == random_seed(ms.seed)
    IN  IF ~ms.ok
        THEN [err |-> "ValueError", rng |-> s, data |-> NoData]
        ELSE [err |-> "none", rng |-> RngAfter(s0, 7),
              data |-> MetricDict([i \in 1..7 |->
                           DrawMetric(RngAfter(s0, i - 1), MetricOrder[i])])]

----------------------------------------------------------------------------
(* The chart data of draw_information_panels *)

\* the argument of random.seed in draw_information_panels:
\* int(latitude * longitude * 1000)
SeriesSeed(lat, lon) == TruncDiv(lat.v * lon.v, 10)

\* the order in which the series are drawn
SeriesOrder == <<"fire", "landslide", "wind", "temp", "rain">>

SeriesLen(name) == IF name \in {"fire", "landslide"} THEN 12 ELSE 7

\* one series drawn from generator state s
DrawSeries(s, name) ==
    [i \in 1..SeriesLen(name) |->
        CASE name \in {"fire", "landslide"} -> uniform(RngAfter(s, i - 1), 0, 5)
          [] name = "wind"                  -> uniform(RngAfter(s, i - 1), 0, 25)
          [] name = "temp"                  -> uniform(RngAfter(s, i - 1), 20, 42)
          [] name = "rain"                  -> uniform(RngAfter(s, i - 1), 0, 100)]

\* generator steps taken before series k of SeriesOrder is drawn
RECURSIVE SeriesOffset(_)
SeriesOffset(k) ==
    IF k = 1 THEN 0 ELSE SeriesOffset(k - 1) + SeriesLen(SeriesOrder[k - 1])

\* the five series as drawn after the generator was left in state s0
DrawAllSeries(s0) ==
    [k \in 1..5 |-> DrawSeries(RngAfter(s0, SeriesOffset(k)), SeriesOrder[k])]

\* the chart data without reseeding: drawn from the generator as it stands
generate_chart_data_noseed(s, lat, lon) ==
    [rng |-> RngAfter(s, SeriesOffset(5) + 7), series |-> DrawAllSeries(s)]

\* lines 404-419 of draw_information_panels with the generator in state s
generate_chart_data(s, lat, lon) ==
    LET s0 == random_seed(SeriesSeed(lat, lon))
    IN  [rng |-> RngAfter(s0, SeriesOffset(5) + 7), series |-> DrawAllSeries(s0)]

----------------------------------------------------------------------------
(* get_windfinder_color *)

\* get_windfinder_color with the two threshold tables under each other's kind
get_windfinder_color_swapped(value, chart_type) ==
    IF chart_type = "temp_forecast"
    THEN IF value <= 500 THEN "#00FF00"
         ELSE IF value <= 1000 THEN "#7FFF00"
         ELSE IF value <= 1500 THEN "#FFFF00"
         ELSE IF value <= 2000 THEN "#FFA500"
         ELSE "#FF0000"
    ELSE IF chart_type = "wind_forecast"
    THEN IF value <= 2500 THEN "#0080FF"
         ELSE IF value <= 3000 THEN "#00FF80"
         ELSE IF value <= 3500 THEN "#00FF00"
         ELSE IF value <= 3800 THEN "#FFFF00"
         ELSE IF value <= 4000 THEN "#FFA500"
         ELSE "#FF0000"
    ELSE "#3182CE"

\* get_windfinder_color comparing with < where the code has <=
get_windfinder_color_strict(value, chart_type) ==
    IF chart_type = "wind_forecast"
    THEN IF value < 500 THEN "#00FF00"
         ELSE IF value < 1000 THEN "#7FFF00"
         ELSE IF value < 1500 THEN "#FFFF00"
         ELSE IF value < 2000 THEN "#FFA500"
         ELSE "#FF0000"
    ELSE IF chart_type = "temp_forecast"
    THEN IF value < 2500 THEN "#0080FF"
         ELSE IF value < 3000 THEN "#00FF80"
         ELSE IF value < 3500 THEN "#00FF00"
         ELSE IF value < 3800 THEN "#FFFF00"
         ELSE IF value < 4000 THEN "#FFA500"
         ELSE "#FF0000"
    ELSE "#3182CE"

\* get_windfinder_color(value, chart_type), value in hundredths
get_windfinder_color(value, chart_type) ==
    IF chart_type = "wind_forecast"
    THEN IF value <= 500 THEN "#00FF00"
         ELSE IF value <= 1000 THEN "#7FFF00"
         ELSE IF value <= 1500 THEN "#FFFF00"
         ELSE IF value <= 2000 THEN "#FFA500"
         ELSE "#FF0000"
    ELSE IF chart_type = "temp_forecast"
    THEN IF value <= 2500 THEN "#0080FF"
         ELSE IF value <= 3000 THEN "#00FF80"
         ELSE IF value <= 3500 THEN "#00FF00"
         ELSE IF value <= 3800 THEN "#FFFF00"
         ELSE IF value <= 4000 THEN "#FFA500"
         ELSE "#FF0000"
    ELSE "#3182CE"

\* the colour class the code's comments give each hex colour
ColorClass(hex) ==
    CASE hex = "#00FF00" -> "green"
      [] hex = "#7FFF00" -> "yellow-green"
      [] hex = "#FFFF00" -> "yellow"
      [] hex = "#FFA500" -> "orange"
      [] hex = "#FF0000" -> "red"
      [] hex = "#0080FF" -> "blue"
      [] hex = "#00FF80" -> "green-blue"
      [] OTHER           -> "default"

----------------------------------------------------------------------------
(* create_fallback_chart and create_pygal_chart *)

RECURSIVE SeqMax(_)
SeqMax(s) ==
    IF Len(s) = 1 THEN s[1]
    ELSE LET m == SeqMax(Tail(s)) IN IF s[1] > m THEN s[1] ELSE m

\* s[:n]
Prefix(s, n) == SubSeq(s, 1, IF Len(s) < n THEN Len(s) ELSE n)

\* the bar colour the fallback picks from the chart type's name
FallbackColor(chart_type) ==
    CASE chart_type = "wind_forecast" -> "#4ECDC4"
      [] chart_type = "temp_forecast" -> "#45B7D1"
      [] OTHER                        -> "#2563EB"

NoRaster == [w |-> 0, h |-> 0]

FailedChart(err, path) ==
    [err |-> err, path |-> path, raster |-> NoRaster,
     points |-> <<>>, labels |-> <<>>, bars |-> <<>>]

\* the rectangles of the bar loop, for data with a maximum > 0
FallbackBars(chart_type, chart_data, chart_width, chart_height) ==
    LET max_val == SeqMax(chart_data)
        bar_width == chart_width \div Len(chart_data)
    IN  [i \in 1..Len(chart_data) |->
            LET bar_height == TruncDiv(chart_data[i] * (chart_height - 40), max_val)
                x1 == (i - 1) * bar_width + 10
            IN  [x1 |-> x1, y1 |-> chart_height - bar_height - 20,
                 x2 |-> x1 + bar_width - 5, y2 |-> chart_height - 20,
                 color |-> FallbackColor(chart_type)]]

\* ImageDraw.rectangle raises ValueError for x1 < x0 or y1 < y0
RectanglesOk(bars) ==
    \A i \in 1..Len(bars) : bars[i].x1 <= bars[i].x2 /\ bars[i].y1 <= bars[i].y2

\* create_fallback_chart without the "if max_val > 0" test
create_fallback_chart_noguard(chart_type, chart_data, chart_labels, chart_width, chart_height) ==
    IF chart_data = <<>>
    THEN [err |-> "none", path |-> "fallback",
          raster |-> [w |-> chart_width, h |-> chart_height],
          points |-> <<>>, labels |-> <<>>, bars |-> <<>>]
    ELSE IF SeqMax(chart_data) = 0
    THEN FailedChart("ZeroDivisionError", "fallback")
    ELSE LET bars == FallbackBars(chart_type, chart_data, chart_width, chart_height)
         IN  IF ~RectanglesOk(bars)
             THEN FailedChart("ValueError", "fallback")
             ELSE [err |-> "none", path |-> "fallback",
                   raster |-> [w |-> chart_width, h |-> chart_height],
                   points |-> chart_data, labels |-> <<>>, bars |-> bars]

\* create_fallback_chart: a raster of the requested size with one bar per
\* value of chart_data (none when the data is empty or its maximum is not
\* > 0) and the chart type as its caption; chart_labels are not drawn
create_fallback_chart(chart_type, chart_data, chart_labels, chart_width, chart_height) ==
    IF chart_data = <<>> \/ SeqMax(chart_data) <= 0
    THEN [err |-> "none", path |-> "fallback",
          raster |-> [w |-> chart_width, h |-> chart_height],
          points |-> <<>>, labels |-> <<>>, bars |-> <<>>]
    ELSE LET bars == FallbackBars(chart_type, chart_data, chart_width, chart_height)
         IN  IF ~RectanglesOk(bars)
             THEN FailedChart("ValueError", "fallback")
             ELSE [err |-> "none", path |-> "fallback",
                   raster |-> [w |-> chart_width, h |-> chart_height],
                   points |-> chart_data, labels |-> <<>>, bars |-> bars]

ChartTypes == {"yearly", "wind_forecast", "temp_forecast", "rain_forecast"}

\* what the cairosvg branch of create_pygal_chart can do: "ok", or the class
\* of the exception raised by the import, chart.render(), svg2png or Image.open
BackendOutcomes == {"ok", "ImportError", "OSError", "ValueError", "RuntimeError"}

\* the points and labels the pygal chart description is given
PygalPoints(chart_type, chart_data) ==
    IF chart_type = "yearly" THEN chart_data ELSE Prefix(chart_data, 7)

\* the colour of each point of the pygal chart
PygalColors(chart_type, chart_data) ==
    LET pts == PygalPoints(chart_type, chart_data)
    IN  [i \in 1..Len(pts) |->
            CASE chart_type \in {"wind_forecast", "temp_forecast"}
                     -> get_windfinder_color(pts[i], chart_type)
              [] chart_type = "rain_forecast" -> "#2563EB"
              [] OTHER -> "theme"]

\* create_pygal_chart when backend is what the cairosvg branch does
create_pygal_chart(chart_type, chart_data, chart_labels, chart_width, chart_height, backend) ==
    IF backend \in {"ImportError", "OSError"}
    THEN create_fallback_chart(chart_type, chart_data, chart_labels,
                               chart_width, chart_height)
    ELSE IF chart_type \notin ChartTypes
    THEN FailedChart("UnboundLocalError", "pygal")
    ELSE IF backend # "ok"
    THEN FailedChart(backend, "pygal")
    ELSE [err |-> "none", path |-> "pygal",
          raster |-> [w |-> chart_width, h |-> chart_height],
          points |-> PygalPoints(chart_type, chart_data),
          labels |-> PygalPoints(chart_type, chart_labels),
          bars |-> PygalColors(chart_type, chart_data)]

----------------------------------------------------------------------------
(* get_font *)

\* the entries of font_paths
NumFontPaths == 9

\* get_font(size) when the candidates of font_paths that load are the set
\* loadable and builtinOk tells whether ImageFont.load_default() succeeds:
\* the handle returned and the candidates tried
get_font(size, loadable, builtinOk) ==
    IF loadable # {}
    THEN LET first == CHOOSE c \in loadable : \A d \in loadable : c <= d
         IN  [kind |-> "truetype", path |-> first, size |-> size, tried |-> first]
    ELSE IF builtinOk
    THEN [kind |-> "default", path |-> 0, size |-> 0, tried |-> NumFontPaths]
    ELSE [kind |-> "None", path |-> 0, size |-> 0, tried |-> NumFontPaths]

\* the sets of loadable candidates explored: none, one or two of them load
FontEnvs == {S \in SUBSET (1..NumFontPaths) : Cardinality(S) <= 2}

\* draw.text with the handle get_font returned: with a None handle the call
\* passes no font and PIL loads its default font itself, the load that
\* raised in get_font; pilFontOk tells whether it succeeds this time
DrawText(font, pilFontOk) ==
    IF font.kind = "None" /\ ~pilFontOk THEN "OSError" ELSE "none"

----------------------------------------------------------------------------
(* The panel layout of draw_information_panels *)

CanvasWidth == 1600
CanvasHeight == 1200

panel_height == 250
start_y == 80
margin == 50
row_gap == 25

\* where and how high the date is written in the header
date_y == 20
title_font_size == 24

panel_width(width) == (width - 160) \div 2

\* int(48 * 1.92)
icon_size == 92

\* int(110 * 1.25)
chart_height == 137

Panels ==
    << [icon |-> "gps.png", title |-> "GPS Position", chart_type |-> "none", series |-> 0],
       [icon |-> "fire.jpg", title |-> "Fire Risk", chart_type |-> "yearly", series |-> 1],
       [icon |-> "height.jpg", title |-> "Elevation", chart_type |-> "none", series |-> 0],
       [icon |-> "landslides.jpg", title |-> "Landslide Risk", chart_type |-> "yearly", series |-> 2],
       [icon |-> "slope.png", title |-> "Slope", chart_type |-> "none", series |-> 0],
       [icon |-> "wind.jpg", title |-> "Wind Speed", chart_type |-> "wind_forecast", series |-> 3],
       [icon |-> "temperature.png", title |-> "Temperature", chart_type |-> "temp_forecast", series |-> 4],
       [icon |-> "weather.jpg", title |-> "Rain Forecast", chart_type |-> "rain_forecast", series |-> 5] >>

\* the value each panel shows, from gps_data
PanelContent(k, d) ==
    CASE k = 1 -> 0
      [] k = 2 -> d.fire_risk
      [] k = 3 -> d.height
      [] k = 4 -> d.landslide_risk
      [] k = 5 -> d.slope
      [] k = 6 -> d.wind_speed
      [] k = 7 -> d.temperature
      [] k = 8 -> d.rain_probability

\* the box of panel i (0-based, as enumerate gives it) with rows that overlap
PanelBoxTight(i, width) ==
    [x |-> margin + (i % 2) * (panel_width(width) + margin),
     y |-> start_y + (i \div 2) * (panel_height - row_gap),
     w |-> panel_width(width),
     h |-> panel_height]

\* the box of panel i (0-based, as enumerate gives it): the rectangle
\* [x, y, x + w, y + h] the border is drawn on
PanelBox(i, width) ==
    [x |-> margin + (i % 2) * (panel_width(width) + margin),
     y |-> start_y + (i \div 2) * (panel_height + row_gap),
     w |-> panel_width(width),
     h |-> panel_height]

\* the states an icon file can be in
IconStates == {"rgba", "rgb", "absent", "unreadable"}

\* what the icon block of the panel loop draws
DrawIcon(iconState) ==
    CASE iconState = "rgba"       -> "icon_alpha"
      [] iconState = "rgb"        -> "icon"
      [] iconState = "absent"     -> "nothing"
      [] iconState = "unreadable" -> "placeholder"

\* the icon region of a panel whose box is b
IconRegion(b) ==
    [x |-> b.x + 10, y |-> b.y + 10, w |-> icon_size, h |-> icon_size]

\* the chart sub-region placed right under the panel's top border
ChartRegionHigh(b) ==
    [x |-> b.x + 10, y |-> b.y + 11, w |-> b.w - 20, h |-> chart_height]

\* the chart sub-region of a panel whose box is b
ChartRegion(b) ==
    [x |-> b.x + 10, y |-> b.y + 111, w |-> b.w - 20, h |-> chart_height]

\* chart_labels of a panel: the labels are numbered 1..n
ChartLabels(chart_type) ==
    IF chart_type = "yearly" THEN [i \in 1..12 |-> i] ELSE [i \in 1..7 |-> i]

----------------------------------------------------------------------------
(* Inputs *)

LatInputs == {Num(-9000), Num(0), Num(4071), Num(9000), Num(9100), NaN, Text}
LonInputs == {Num(-18000), Num(-7401), Num(0), Num(18000), Num(18100)}
ScalarInputs == {Num(0), Num(15), Num(1500), Tiny, Huge, Inf, NaN}

\* Query(..., ge=-90, le=90) and Query(..., ge=-180, le=180) on floats, and
\* the float parse of scalar: nan fails both comparisons
LatOk(lat) == IsNum(lat) /\ -9000 <= lat.v /\ lat.v <= 9000
LonOk(lon) == IsNum(lon) /\ -18000 <= lon.v /\ lon.v <= 18000
QueryOk(lat, lon, scalar) == LatOk(lat) /\ LonOk(lon) /\ scalar.k # "text"

\* the validators of GPSPosition
GPSPositionOk(lat, lon) == LatOk(lat) /\ LonOk(lon)

ValidLat == {x \in LatInputs : LatOk(x)}
ValidLon == {x \in LonInputs : LonOk(x)}

NoReq == [lat |-> Text, lon |-> Text, scalar |-> Text]
NoBody == [format |-> "none", w |-> 0, h |-> 0]
NoFonts == [title_font |-> "unset", content_font |-> "unset"]
NoStep == [kind |-> "none"]
NoCall == [fn |-> "none"]
NoOut == [fn |-> "none"]

ApiIdle ==
    /\ pc = "off" /\ status = 0 /\ body = NoBody /\ entered = FALSE
    /\ cairo = "ok" /\ fonts = NoFonts /\ boxes = <<>> /\ step = NoStep

SeqIdle ==
    /\ probe = NoReq /\ probeOut = {} /\ probeCount = 0 /\ between = FALSE
    /\ calls = 0

ParIdle ==
    /\ treq = <<>> /\ tpc = <<>> /\ tdata = <<>> /\ tseries = <<>>

PureIdle == call = NoCall /\ out = NoOut

----------------------------------------------------------------------------
(* The /generate-image handler: generate_image, generate_placeholder_image *)

\* the except clauses of generate_image
HandlerStatus(err) == IF err = "ValueError" THEN 400 ELSE 500

Fail(err) ==
    /\ status' = HandlerStatus(err)
    /\ pc' = "done"

\* a request arrives; FastAPI validates the query parameters and answers 422
\* itself when one is rejected
Receive(lat, lon, scalar) ==
    /\ pc = "idle"
    /\ req' = [lat |-> lat, lon |-> lon, scalar |-> scalar]
    /\ IF QueryOk(lat, lon, scalar)
       THEN pc' = "validate" /\ status' = status
       ELSE pc' = "done" /\ status' = 422
    /\ UNCHANGED <<rng, data, series, body, entered, cairo, fonts, boxes, step>>
    /\ UNCHANGED <<seqVars, parVars, pureVars>>

\* GPSPosition(latitude=..., longitude=...) inside the try block, then the
\* call of generate_placeholder_image, which creates the canvas
Validate ==
    /\ pc = "validate"
    /\ IF GPSPositionOk(req.lat, req.lon)
       THEN /\ pc' = "background"
            /\ entered' = TRUE
            /\ step' = [kind |-> "canvas", w |-> CanvasWidth, h |-> CanvasHeight]
            /\ status' = status
       ELSE /\ Fail("ValueError")
            /\ UNCHANGED <<entered, step>>
    /\ UNCHANGED <<rng, req, data, series, body, cairo, fonts, boxes>>
    /\ UNCHANGED <<seqVars, parVars, pureVars>>

BackgroundStates == {"ok", "absent", "unreadable"}

\* the background block: the file pasted, or the gradient when it is absent
\* or opening it raises
Background(bgState) ==
    /\ pc = "background"
    /\ step' = [kind |-> "background", state |-> bgState,
                painted |-> IF bgState = "ok" THEN "image" ELSE "gradient"]
    /\ pc' = "gps_data"
    /\ UNCHANGED <<rng, req, data, series, status, body, entered, cairo, fonts, boxes>>
    /\ UNCHANGED <<seqVars, parVars, pureVars>>

\* gps_data = generate_gps_data(latitude, longitude, scalar)
GpsData ==
    /\ pc = "gps_data"
    /\ LET r == generate_gps_data(rng, req.lat, req.lon, req.scalar)
       IN  /\ rng' = r.rng
           /\ data' = r.data
           /\ step' = [kind |-> "gps_data", err |-> r.err,
                       seed |-> MetricSeed(req.lat, req.lon, req.scalar).seed]
           /\ IF r.err = "none"
              THEN pc' = "fonts" /\ status' = status
              ELSE Fail(r.err)
    /\ UNCHANGED <<req, series, body, entered, cairo, fonts, boxes>>
    /\ UNCHANGED <<seqVars, parVars, pureVars>>

\* the four get_font calls of draw_information_panels
Fonts(loadable, builtinOk) ==
    /\ pc = "fonts"
    /\ fonts' = [title_font |-> get_font(24, loadable, builtinOk).kind,
                 content_font |-> get_font(36, loadable, builtinOk).kind]
    /\ step' = [kind |-> "fonts", loadable |-> loadable, builtinOk |-> builtinOk,
                title_font |-> get_font(24, loadable, builtinOk),
                content_font |-> get_font(36, loadable, builtinOk),
                desc_font |-> get_font(16, loadable, builtinOk),
                small_font |-> get_font(12, loadable, builtinOk)]
    /\ pc' = "header"
    /\ UNCHANGED <<rng, req, data, series, status, body, entered, cairo, boxes>>
    /\ UNCHANGED <<seqVars, parVars, pureVars>>

\* the date written in the top right corner
Header(pilFontOk) ==
    /\ pc = "header"
    /\ LET err == DrawText([kind |-> fonts.title_font], pilFontOk)
       IN  /\ step' = [kind |-> "header", err |-> err, y |-> date_y,
                       bottom |-> date_y + title_font_size]
           /\ IF err = "none"
              THEN pc' = "chart_data" /\ status' = status
              ELSE Fail(err)
    /\ UNCHANGED <<rng, req, data, series, body, entered, cairo, fonts, boxes>>
    /\ UNCHANGED <<seqVars, parVars, pureVars>>

\* the chart data drawn after random.seed(int(latitude * longitude * 1000))
ChartData ==
    /\ pc = "chart_data"
    /\ LET c == generate_chart_data(rng, req.lat, req.lon)
       IN  /\ rng' = c.rng
           /\ series' = c.series
    /\ step' = [kind |-> "chart_data", seed |-> SeriesSeed(req.lat, req.lon)]
    /\ pc' = "panels"
    /\ UNCHANGED <<req, data, status, body, entered, cairo, fonts, boxes>>
    /\ UNCHANGED <<seqVars, parVars, pureVars>>

\* what the cairosvg branch can do in a process where the import does cairo
CallOutcomes(imp) ==
    IF imp = "ok" THEN {"ok", "OSError", "ValueError", "RuntimeError"} ELSE {imp}

\* one iteration of the panel loop
DrawPanel(iconState, backend, pilFontOk) ==
    /\ pc = "panels"
    /\ LET k == Len(boxes) + 1
           panel == Panels[k]
           b == PanelBox(k - 1, CanvasWidth)
           region == ChartRegion(b)
           textErr == IF DrawText([kind |-> fonts.title_font], pilFontOk) # "none"
                      THEN DrawText([kind |-> fonts.title_font], pilFontOk)
                      ELSE DrawText([kind |-> fonts.content_font], pilFontOk)
           hasChart == panel.chart_type # "none"
           chart == IF hasChart /\ textErr = "none"
                    THEN create_pygal_chart(panel.chart_type, series[panel.series],
                                            ChartLabels(panel.chart_type),
                                            region.w, region.h, backend)
                    ELSE [err |-> "none", path |-> "none", raster |-> NoRaster,
                          points |-> <<>>, labels |-> <<>>, bars |-> <<>>]
           err == IF textErr # "none" THEN textErr ELSE chart.err
       IN  /\ backend \in (IF hasChart THEN CallOutcomes(cairo) ELSE {"ok"})
           /\ boxes' = Append(boxes, [title |-> panel.title, x |-> b.x, y |-> b.y,
                                      w |-> b.w, h |-> b.h])
           /\ step' = [kind |-> "panel", k |-> k, title |-> panel.title,
                       content |-> PanelContent(k, data), box |-> b,
                       iconState |-> iconState, iconDrawn |-> DrawIcon(iconState),
                       icon |-> IconRegion(b),
                       hasChart |-> hasChart, region |-> region,
                       backend |-> backend, chart |-> chart, err |-> err]
           /\ IF err # "none"
              THEN Fail(err)
              ELSE /\ pc' = IF k = Len(Panels) THEN "convert" ELSE "panels"
                   /\ status' = status
    /\ UNCHANGED <<rng, req, data, series, body, entered, cairo, fonts>>
    /\ UNCHANGED <<seqVars, parVars, pureVars>>

\* image.convert('RGB'), the PNG encoding and the response
Respond ==
    /\ pc = "convert"
    /\ status' = 200
    /\ body' = [format |-> "PNG", w |-> CanvasWidth, h |-> CanvasHeight]
    /\ step' = [kind |-> "response"]
    /\ pc' = "done"
    /\ UNCHANGED <<rng, req, data, series, entered, cairo, fonts, boxes>>
    /\ UNCHANGED <<seqVars, parVars, pureVars>>

Init ==
    /\ rng \in RngInit
    /\ req = NoReq /\ data = NoData /\ series = <<>>
    /\ pc = "idle" /\ status = 0 /\ body = NoBody /\ entered = FALSE
    /\ cairo \in {"ok", "ImportError", "OSError"}
    /\ fonts = NoFonts /\ boxes = <<>> /\ step = NoStep
    /\ SeqIdle /\ ParIdle /\ PureIdle

Next ==
    \/ \E lat \in LatInputs, lon \in LonInputs, scalar \in ScalarInputs :
           Receive(lat, lon, scalar)
    \/ Validate
    \/ \E bgState \in BackgroundStates : Background(bgState)
    \/ GpsData
    \/ \E loadable \in FontEnvs, builtinOk \in BOOLEAN :
           Fonts(loadable, builtinOk)
    \/ \E pilFontOk \in BOOLEAN : Header(pilFontOk)
    \/ ChartData
    \/ \E iconState \in IconStates, backend \in BackendOutcomes,
          pilFontOk \in BOOLEAN :
           DrawPanel(iconState, backend, pilFontOk)
    \/ Respond

Spec == Init /\ [][Next]_vars

----------------------------------------------------------------------------
(* Renders one after another in one process *)

SeqLat == {Num(0), Num(4071), Num(9000)}
SeqLon == {Num(-7401), Num(0)}
SeqScalars == {Num(0), Num(1500), Huge}

SeqTriples ==
    {[lat |-> lat, lon |-> lon, scalar |-> scalar] :
        lat \in SeqLat, lon \in SeqLon, scalar \in {x \in SeqScalars : IsNum(x)}}

\* one whole call of generate_placeholder_image, as far as the generator and
\* the synthesized data go: generate_gps_data, then the chart data of
\* draw_information_panels
Render(lat, lon, scalar) ==
    /\ calls < MaxCalls
    /\ calls' = calls + 1
    /\ req' = [lat |-> lat, lon |-> lon, scalar |-> scalar]
    /\ LET r == generate_gps_data(rng, lat, lon, scalar)
           c == generate_chart_data(r.rng, lat, lon)
       IN  IF r.err # "none"
           THEN /\ rng' = r.rng
                /\ data' = NoData
                /\ series' = <<>>
                /\ UNCHANGED <<probeOut, probeCount, between>>
           ELSE /\ rng' = c.rng
                /\ data' = r.data
                /\ series' = c.series
                /\ IF [lat |-> lat, lon |-> lon, scalar |-> scalar] = probe
                   THEN /\ probeOut' = probeOut \cup {[data |-> r.data, series |-> c.series]}
                        /\ probeCount' = probeCount + 1
                        /\ between' = between
                   ELSE /\ between' = (between \/ probeCount = 1)
                        /\ UNCHANGED <<probeOut, probeCount>>
    /\ UNCHANGED probe
    /\ UNCHANGED <<apiVars, parVars, pureVars>>

InitSeq ==
    /\ rng \in RngInit
    /\ req = NoReq /\ data = NoData /\ series = <<>>
    /\ probe \in SeqTriples
    /\ probeOut = {} /\ probeCount = 0 /\ between = FALSE /\ calls = 0
    /\ ApiIdle /\ ParIdle /\ PureIdle

NextSeq ==
    \E lat \in SeqLat, lon \in SeqLon, scalar \in SeqScalars :
        Render(lat, lon, scalar)

SpecSeq == InitSeq /\ [][NextSeq]_vars

----------------------------------------------------------------------------
(* Two renders in parallel threads of one process *)

Threads == {1, 2}

ParTriples ==
    {[lat |-> Num(4071), lon |-> Num(-7401), scalar |-> Num(1500)],
     [lat |-> Num(9000), lon |-> Num(18000), scalar |-> Num(0)],
     [lat |-> Num(0), lon |-> Num(0), scalar |-> Num(15)]}

\* The steps of a render that touch the generator, in order: random.seed in
\* generate_gps_data (tpc 0 -> 1), its seven draws (1 -> 2), random.seed in
\* draw_information_panels (2 -> 3), the draws of its five series (3 -> 4).

\* thread t calls random.seed in generate_gps_data
TSeedMetrics(t) ==
    /\ tpc[t] = 0
    /\ MetricSeed(treq[t].lat, treq[t].lon, treq[t].scalar).ok
    /\ rng' = random_seed(MetricSeed(treq[t].lat, treq[t].lon, treq[t].scalar).seed)
    /\ tpc' = [tpc EXCEPT ![t] = 1]
    /\ UNCHANGED <<treq, tdata, tseries, req, data, series>>
    /\ UNCHANGED <<apiVars, seqVars, pureVars>>

\* thread t draws its seven metrics
TDrawMetrics(t) ==
    /\ tpc[t] = 1
    /\ tdata' = [tdata EXCEPT ![t] =
                    MetricDict([i \in 1..7 |->
                        DrawMetric(RngAfter(rng, i - 1), MetricOrder[i])])]
    /\ rng' = RngAfter(rng, 7)
    /\ tpc' = [tpc EXCEPT ![t] = 2]
    /\ UNCHANGED <<treq, tseries, req, data, series>>
    /\ UNCHANGED <<apiVars, seqVars, pureVars>>

\* thread t calls random.seed in draw_information_panels
TSeedSeries(t) ==
    /\ tpc[t] = 2
    /\ rng' = random_seed(SeriesSeed(treq[t].lat, treq[t].lon))
    /\ tpc' = [tpc EXCEPT ![t] = 3]
    /\ UNCHANGED <<treq, tdata, tseries, req, data, series>>
    /\ UNCHANGED <<apiVars, seqVars, pureVars>>

\* thread t draws its five series
TDrawSeries(t) ==
    /\ tpc[t] = 3
    /\ tseries' = [tseries EXCEPT ![t] = DrawAllSeries(rng)]
    /\ rng' = RngAfter(rng, SeriesOffset(5) + 7)
    /\ tpc' = [tpc EXCEPT ![t] = 4]
    /\ UNCHANGED <<treq, tdata, req, data, series>>
    /\ UNCHANGED <<apiVars, seqVars, pureVars>>

InitPar ==
    /\ rng \in RngInit
    /\ req = NoReq /\ data = NoData /\ series = <<>>
    /\ treq \in [Threads -> ParTriples]
    /\ tpc = [t \in Threads |-> 0]
    /\ tdata = [t \in Threads |-> NoData]
    /\ tseries = [t \in Threads |-> <<>>]
    /\ ApiIdle /\ SeqIdle /\ PureIdle

NextPar ==
    \E t \in Threads :
        \/ TSeedMetrics(t)
        \/ TDrawMetrics(t)
        \/ TSeedSeries(t)
        \/ TDrawSeries(t)

SpecPar == InitPar /\ [][NextPar]_vars

----------------------------------------------------------------------------
(* The colour and chart helpers called on their own *)

\* longest series given to a chart helper
MaxPoints == 10

\* the values get_windfinder_color is asked about: -1.00 .. 45.00 in steps of 0.50
ColorValues == {50 * n : n \in -2..90}

ColorKinds == {"wind_forecast", "temp_forecast", "yearly", "rain_forecast"}

\* the series given to a chart helper: n values, all zero, rising, or
\* alternating between two levels
SeriesShapes == {"zero", "ramp", "alt"}

ShapedSeries(n, shape) ==
    [i \in 1..n |->
        CASE shape = "zero" -> 0
          [] shape = "ramp" -> 100 * i
          [] shape = "alt"  -> IF i % 2 = 1 THEN 2500 ELSE 700]

\* the raster sizes asked of a chart helper: the panel's chart region and a
\* small one
ChartSizes == {[w |-> panel_width(CanvasWidth) - 20, h |-> chart_height],
               [w |-> 120, h |-> 60]}

PureCalls ==
    {[fn |-> "color", value |-> v, chart_type |-> kind, data |-> <<>>,
      labels |-> <<>>, w |-> 0, h |-> 0, backend |-> "none"] :
        v \in ColorValues, kind \in ColorKinds}
    \cup
    {[fn |-> "chart", value |-> 0, chart_type |-> ct,
      data |-> ShapedSeries(n, shape), labels |-> [i \in 1..n |-> i],
      w |-> size.w, h |-> size.h, backend |-> backend] :
        ct \in ChartTypes \cup {"other"}, n \in 0..MaxPoints,
        shape \in SeriesShapes, size \in ChartSizes, backend \in BackendOutcomes}

NoChart == [err |-> "none", path |-> "none", raster |-> NoRaster,
            points |-> <<>>, labels |-> <<>>, bars |-> <<>>]

\* get_windfinder_color(value, chart_type) is called
ApplyColor ==
    /\ call.fn = "color"
    /\ out = NoOut
    /\ out' = [fn |-> "color",
               color |-> get_windfinder_color(call.value, call.chart_type),
               chart |-> NoChart]
    /\ UNCHANGED <<call, rng, req, data, series>>
    /\ UNCHANGED <<apiVars, seqVars, parVars>>

\* create_pygal_chart(chart_type, chart_data, chart_labels, width, height) is
\* called
ApplyChart ==
    /\ call.fn = "chart"
    /\ out = NoOut
    /\ out' = [fn |-> "chart", color |-> "",
               chart |-> create_pygal_chart(call.chart_type, call.data, call.labels,
                                            call.w, call.h, call.backend)]
    /\ UNCHANGED <<call, rng, req, data, series>>
    /\ UNCHANGED <<apiVars, seqVars, parVars>>

InitPure ==
    /\ rng \in RngInit
    /\ req = NoReq /\ data = NoData /\ series = <<>>
    /\ call \in PureCalls
    /\ out = NoOut
    /\ ApiIdle /\ SeqIdle /\ ParIdle

NextPure == ApplyColor \/ ApplyChart

SpecPure == InitPure /\ [][NextPure]_vars

----------------------------------------------------------------------------
(* One render, one generator call at a time *)

\* the requests generate_gps_data returns for
DrawTriples ==
    {r \in [lat : ValidLat, lon : ValidLon, scalar : ScalarInputs] :
        MetricSeed(r.lat, r.lon, r.scalar).ok}

\* the number of draws of the current phase made so far
Drawn(kind) == IF step.kind = kind THEN step.n ELSE 0

\* random.seed(...) in generate_gps_data
SeedMetrics ==
    /\ pc = "seed_metrics"
    /\ rng' = random_seed(MetricSeed(req.lat, req.lon, req.scalar).seed)
    /\ step' = [kind |-> "seed", n |-> 0, field |-> "metrics"]
    /\ pc' = "draw_metrics"
    /\ UNCHANGED <<req, data, series, status, body, entered, cairo, fonts, boxes>>
    /\ UNCHANGED <<seqVars, parVars, pureVars>>

\* the next of the seven random calls of generate_gps_data
DrawNextMetric ==
    /\ pc = "draw_metrics"
    /\ LET n == Drawn("draw_metric") + 1
           field == MetricOrder[n]
       IN  /\ data' = [data EXCEPT ![field] = DrawMetric(rng, field)]
           /\ rng' = RngStep(rng)
           /\ step' = [kind |-> "draw_metric", n |-> n, field |-> field]
           /\ pc' = IF n = Len(MetricOrder) THEN "seed_series" ELSE "draw_metrics"
    /\ UNCHANGED <<req, series, status, body, entered, cairo, fonts, boxes>>
    /\ UNCHANGED <<seqVars, parVars, pureVars>>

\* random.seed(...) in draw_information_panels
SeedSeries ==
    /\ pc = "seed_series"
    /\ rng' = random_seed(SeriesSeed(req.lat, req.lon))
    /\ step' = [kind |-> "seed", n |-> 0, field |-> "series"]
    /\ pc' = "draw_series"
    /\ UNCHANGED <<req, data, series, status, body, entered, cairo, fonts, boxes>>
    /\ UNCHANGED <<seqVars, parVars, pureVars>>

\* the next of the five list comprehensions of draw_information_panels
DrawNextSeries ==
    /\ pc = "draw_series"
    /\ LET n == Drawn("draw_series") + 1
           name == SeriesOrder[n]
       IN  /\ series' = Append(series, DrawSeries(rng, name))
           /\ rng' = RngAfter(rng, SeriesLen(name))
           /\ step' = [kind |-> "draw_series", n |-> n, field |-> name]
           /\ pc' = IF n = Len(SeriesOrder) THEN "drawn" ELSE "draw_series"
    /\ UNCHANGED <<req, data, status, body, entered, cairo, fonts, boxes>>
    /\ UNCHANGED <<seqVars, parVars, pureVars>>

InitDraw ==
    /\ rng \in RngInit
    /\ req \in DrawTriples /\ data = NoData /\ series = <<>>
    /\ pc = "seed_metrics" /\ step = NoStep
    /\ status = 0 /\ body = NoBody /\ entered = FALSE
    /\ cairo = "ok" /\ fonts = NoFonts /\ boxes = <<>>
    /\ SeqIdle /\ ParIdle /\ PureIdle

NextDraw == SeedMetrics \/ DrawNextMetric \/ SeedSeries \/ DrawNextSeries

SpecDraw == InitDraw /\ [][NextDraw]_vars

----------------------------------------------------------------------------
(* Properties *)

\* the outputs of a render of triple r that runs alone
SoloData(r) == generate_gps_data(0, r.lat, r.lon, r.scalar).data
SoloSeries(r) == generate_chart_data(0, r.lat, r.lon).series

\* C1: every render of the same valid (lat, lon, scalar) yields the same
\* metric values and the same five series, whatever renders ran before or
\* between: the outputs observed for the probed triple are all one value.
C1_Determinism == Cardinality(probeOut) <= 1

\* the probed triple was rendered twice with another render in between
C1_Witness == probeCount = 2 /\ between /\ Cardinality(probeOut) = 1

\* C2 (as claimed): under every interleaving of the generator steps of two
\* parallel renders, a render that has finished holds the metrics and series
\* it yields when it runs alone.
C2_ParallelIsolation ==
    \A t \in Threads :
        tpc[t] = 4 =>
            /\ tdata[t] = SoloData(treq[t])
            /\ tseries[t] = SoloSeries(treq[t])

\* C3: the synthesized metrics lie in their documented ranges (temperature in
\* tenths of a degree).
C3_Range ==
    data # NoData =>
        /\ data.fire_risk \in 0..5
        /\ data.landslide_risk \in 0..5
        /\ data.height \in 0..300
        /\ data.slope \in 0..100
        /\ data.temperature \in 200..420
        /\ data.rain_probability \in 0..100
        /\ data.wind_speed \in 0..25

\* generate_gps_data returned an elevation no risk field could hold
C3_Witness == pc = "fonts" /\ data # NoData /\ data.height > 5

\* the panel order the layout is documented with
ExpectedTitles == <<"GPS Position", "Fire Risk", "Elevation", "Landslide Risk",
                    "Slope", "Wind Speed", "Temperature", "Rain Forecast">>

BoxesDisjoint(a, b) ==
    \/ a.x + a.w < b.x
    \/ b.x + b.w < a.x
    \/ a.y + a.h < b.y
    \/ b.y + b.h < a.y

\* C4: the panel loop draws at most 8 boxes, exactly 8 when it completes, in
\* row-major order over 2 columns and 4 rows, pairwise disjoint, each inside
\* the 1600x1200 canvas and below the header strip with the date, and box i
\* is always the same panel.
C4_Layout ==
    /\ Len(boxes) <= 8
    /\ pc = "convert" => Len(boxes) = 8
    /\ date_y + title_font_size < start_y
    /\ \A i \in 1..Len(boxes) :
        /\ boxes[i].title = ExpectedTitles[i]
        /\ 0 <= boxes[i].x /\ boxes[i].x + boxes[i].w <= CanvasWidth - 1
        /\ start_y <= boxes[i].y /\ boxes[i].y + boxes[i].h <= CanvasHeight - 1
        /\ \A j \in 1..Len(boxes) :
            i < j =>
                /\ BoxesDisjoint(boxes[i], boxes[j])
                /\ IF (i - 1) \div 2 = (j - 1) \div 2
                   THEN boxes[i].y = boxes[j].y /\ boxes[i].x < boxes[j].x
                   ELSE boxes[i].y < boxes[j].y
                /\ (i % 2 = j % 2) => boxes[i].x = boxes[j].x

\* the panel loop has drawn all eight panels
C4_Witness == pc = "convert" /\ Len(boxes) = 8

\* C5 (as claimed): a request with latitude in [-90, 90] and longitude in
\* [-180, 180] and a finite scalar is answered 200 with a 1600x1200 PNG,
\* whatever the background, icon and font files do (the built-in font and
\* the chart backend aside).
C5_ValidRequestRenders ==
    (/\ pc = "done"
     /\ LatOk(req.lat) /\ LonOk(req.lon)
     /\ req.scalar.k \in {"num", "tiny", "huge"}
     /\ fonts.title_font # "None"
     /\ ~(step.kind = "panel" /\ step.chart.err # "none"))
    => /\ status = 200
       /\ body = [format |-> "PNG", w |-> 1600, h |-> 1200]

\* C6 (as claimed): a request whose latitude or longitude is out of range or
\* no number is answered 400, and generate_placeholder_image is not entered.
C6_InvalidRejected400 ==
    (pc = "done" /\ ~(LatOk(req.lat) /\ LonOk(req.lon)))
    => status = 400 /\ ~entered

\* C7 (as claimed): whenever the preferred chart backend is unavailable or
\* fails, in whatever way, the chart is drawn by the fallback and the render
\* does not fail.
C7_BackendNeverSurfaced ==
    (step.kind = "panel" /\ step.hasChart /\ step.backend # "ok")
    => /\ step.chart.err = "none"
       /\ step.chart.path = "fallback"
       /\ status \notin {400, 500}

\* C8: with the preferred backend disabled, create_pygal_chart returns a
\* raster of exactly the requested size, drawn by the fallback, for every
\* chart type and series, the empty series and the all-zero series included.
C8_FallbackSize ==
    (out.fn = "chart" /\ call.backend \in {"ImportError", "OSError"})
    => /\ out.chart.err = "none"
       /\ out.chart.path = "fallback"
       /\ out.chart.raster = [w |-> call.w, h |-> call.h]

\* the fallback drew a non-empty series whose maximum is 0
C8_Witness ==
    /\ out.fn = "chart" /\ call.backend = "ImportError"
    /\ call.data # <<>> /\ SeqMax(call.data) = 0
    /\ out.chart.raster = [w |-> call.w, h |-> call.h]

\* C9 (as claimed): a weekly series of more than 7 points is rendered from
\* its first 7 points and labels only, on the preferred and on the fallback
\* path.
C9_Truncation ==
    (/\ out.fn = "chart"
     /\ call.chart_type \in {"wind_forecast", "temp_forecast", "rain_forecast"}
     /\ Len(call.data) > 7 /\ SeqMax(call.data) > 0
     /\ out.chart.err = "none")
    => /\ out.chart.points = Prefix(call.data, 7)
       /\ Len(out.chart.labels) <= 7
       /\ out.chart.labels = Prefix(call.labels, Len(out.chart.labels))

\* C10: wind 3 maps to a green, wind 23 to a red, temperature 36 to a yellow
\* and temperature 41 to a red colour.
C10_ColorSamples ==
    out.fn = "color" =>
        /\ (call.chart_type = "wind_forecast" /\ call.value = 300)
               => ColorClass(out.color) = "green"
        /\ (call.chart_type = "wind_forecast" /\ call.value = 2300)
               => ColorClass(out.color) = "red"
        /\ (call.chart_type = "temp_forecast" /\ call.value = 3600)
               => ColorClass(out.color) = "yellow"
        /\ (call.chart_type = "temp_forecast" /\ call.value = 4100)
               => ColorClass(out.color) = "red"

\* get_windfinder_color was asked about temperature 36
C10_Witness ==
    /\ out.fn = "color" /\ call.chart_type = "temp_forecast" /\ call.value = 3600
    /\ out.color = "#FFFF00"

\* the threshold tables as documented: buckets in ascending order, each with
\* its upper bound in hundredths; the last bucket has none
WindBuckets == << [ub |-> 500, color |-> "#00FF00"], [ub |-> 1000, color |-> "#7FFF00"],
                  [ub |-> 1500, color |-> "#FFFF00"], [ub |-> 2000, color |-> "#FFA500"],
                  [ub |-> 2000, color |-> "#FF0000"] >>

TempBuckets == << [ub |-> 2500, color |-> "#0080FF"], [ub |-> 3000, color |-> "#00FF80"],
                  [ub |-> 3500, color |-> "#00FF00"], [ub |-> 3800, color |-> "#FFFF00"],
                  [ub |-> 4000, color |-> "#FFA500"], [ub |-> 4000, color |-> "#FF0000"] >>

\* the buckets of a table that take the value: those whose upper bound is
\* >= the value, and the last one
Matching(table, value) ==
    {i \in 1..Len(table) : i = Len(table) \/ value <= table[i].ub}

\* the colour of the first bucket that takes the value
BucketColor(table, value) ==
    table[CHOOSE i \in Matching(table, value) :
              \A j \in Matching(table, value) : i <= j].color

\* C11: get_windfinder_color is total: a wind value (5 buckets) and a
\* temperature value (6 buckets), inside, below or above the nominal domain,
\* gets the colour of the first bucket in ascending order whose upper bound is
\* >= the value, the last bucket taking the rest; any other chart kind gets
\* the one default colour.
C11_ColorTotal ==
    /\ Len(WindBuckets) = 5 /\ Len(TempBuckets) = 6
    /\ out.fn = "color" =>
        out.color =
            CASE call.chart_type = "wind_forecast" -> BucketColor(WindBuckets, call.value)
              [] call.chart_type = "temp_forecast" -> BucketColor(TempBuckets, call.value)
              [] OTHER -> "#3182CE"

\* get_windfinder_color was asked about a wind value on a bucket's upper
\* bound and answered with that bucket's colour
C11_Witness ==
    /\ out.fn = "color" /\ call.chart_type = "wind_forecast"
    /\ call.value = 1000 /\ out.color = "#7FFF00"

\* C12: for each of the 8 panels, when the icon file does not exist a
\* placeholder rectangle is drawn in the icon region, and the render
\* continues.
C12_AbsentIconPlaceholder ==
    (step.kind = "panel" /\ step.iconState = "absent") =>
        step.iconDrawn = "placeholder"

\* C13: for every valid input the metric seed is
\* floor((lat*1000 + lon*1000 + scalar*100) mod 1000) and so lies in 0..999,
\* and the series seed is floor(lat*lon*1000), also when lat*lon is negative
\* and no integer multiple of 1/1000.  (\div rounds toward minus infinity.)
C13_SeedDerivation ==
    /\ (step.kind = "gps_data" /\ step.err = "none") =>
          /\ step.seed \in 0..999
          /\ IsNum(req.scalar) =>
                step.seed = ((100 * req.lat.v + 100 * req.lon.v + req.scalar.v)
                                % 10000) \div 10
    /\ step.kind = "chart_data" =>
          step.seed = (req.lat.v * req.lon.v) \div 10

\* the metric fields a render has drawn when it has made n draws: the first
\* n of the given order
DrawnFields(order, n) == {order[i] : i \in 1..n}

\* the draws follow the given order of metric fields: draw n is of field n of
\* the order, and exactly the fields before it have their values
MetricsFollow(order) ==
    step.kind = "draw_metric" =>
        /\ step.field = order[step.n]
        /\ \A f \in DOMAIN data : (data[f] # NoData[f]) <=> f \in DrawnFields(order, step.n)

\* the series are drawn in the order fire (12 points), landslide (12),
\* wind (7), temperature (7), rain (7)
SeriesFollow ==
    step.kind = "draw_series" =>
        /\ step.field = <<"fire", "landslide", "wind", "temp", "rain">>[step.n]
        /\ Len(series) = step.n
        /\ Len(series[step.n]) = <<12, 12, 7, 7, 7>>[step.n]

\* C14 (as claimed): after seeding, the metric fields are drawn in the
\* listed order fire_risk, landslide_risk, elevation, slope, temperature,
\* rain_probability, wind_speed, and the series in the order fire (12
\* points), landslide (12), wind (7), temperature (7), rain (7).
C14_ListedDrawOrder == MetricsFollow(MetricOrderListed) /\ SeriesFollow

\* C14 (amended): after seeding, the metric fields are drawn in the order
\* elevation, fire_risk, landslide_risk, slope, temperature,
\* rain_probability, wind_speed, and the series in the order fire (12
\* points), landslide (12), wind (7), temperature (7), rain (7); the whole
\* render leaves the data and series of generate_gps_data and of the chart
\* data block.
C14_DrawOrder ==
    /\ MetricsFollow(<<"height", "fire_risk", "landslide_risk", "slope",
                       "temperature", "rain_probability", "wind_speed">>)
    /\ SeriesFollow
    /\ pc = "drawn" =>
          /\ data = generate_gps_data(0, req.lat, req.lon, req.scalar).data
          /\ series = generate_chart_data(0, req.lat, req.lon).series

\* a render has made all its draws, the rain series last
C14_Witness ==
    /\ pc = "drawn" /\ step.kind = "draw_series" /\ step.n = 5
    /\ step.field = "rain" /\ data.height >= 0

\* what the cascade owes for a handle f when the candidates of set loadable
\* load: the first of them in the listed order, no later one tried; the
\* built-in font when none loads
CascadeOk(f, loadable, builtinOk) ==
    IF loadable # {}
    THEN /\ f.kind = "truetype" /\ f.path \in loadable
         /\ \A c \in loadable : f.path <= c
         /\ f.tried = f.path
    ELSE /\ f.tried = 9
         /\ f.kind = IF builtinOk THEN "default" ELSE "None"

\* C15: get_font tries the candidates in their listed order and returns the
\* first that loads, without trying later ones; when every candidate fails
\* it falls back to the built-in font, and when that fails too the render
\* still proceeds, the text drawn without a font handle, instead of aborting.
C15_FontCascade ==
    /\ step.kind = "fonts" =>
          \A f \in {step.title_font, step.content_font,
                    step.desc_font, step.small_font} :
              CascadeOk(f, step.loadable, step.builtinOk)
    /\ (step.kind \in {"header", "panel"} /\ fonts.title_font = "None") =>
          (step.err = "none" \/ (step.kind = "panel" /\ step.err = step.chart.err))

\* C16: in the fallback chart of a series of n >= 1 points with maximum > 0
\* on a width x height raster, bar i has height
\* floor(value_i / max * (height - 40)) and its rectangle lies within the
\* raster: 0 <= x1 <= x2 <= width - 1 and 0 <= y1 <= y2 <= height - 1, for
\* every i, the last bar included.
C16_FallbackBars ==
    (/\ out.fn = "chart" /\ out.chart.path = "fallback"
     /\ Len(call.data) >= 1 /\ SeqMax(call.data) > 0)
    => /\ out.chart.err = "none"
       /\ Len(out.chart.bars) = Len(call.data)
       /\ \A i \in 1..Len(out.chart.bars) :
             LET b == out.chart.bars[i]
             IN  /\ b.y2 - b.y1 =
                       (call.data[i] * (call.h - 40)) \div SeqMax(call.data)
                 /\ 0 <= b.x1 /\ b.x1 <= b.x2 /\ b.x2 <= call.w - 1
                 /\ 0 <= b.y1 /\ b.y1 <= b.y2 /\ b.y2 <= call.h - 1

\* rectangle r lies inside rectangle b
Inside(r, b) ==
    /\ b.x <= r.x /\ r.x + r.w <= b.x + b.w
    /\ b.y <= r.y /\ r.y + r.h <= b.y + b.h

\* rectangles r and s have no pixel in common
Apart(r, s) ==
    \/ r.x + r.w <= s.x \/ s.x + s.w <= r.x
    \/ r.y + r.h <= s.y \/ s.y + s.h <= r.y

\* C17: for every panel that has a series, the chart sub-region (x+10,
\* y+111, width panel_width-20, height 137) lies inside the panel's bounding
\* box and does not overlap the panel's icon region (x+10..x+102,
\* y+10..y+102), so that a pasted chart covers neither the icon nor another
\* panel.
C17_ChartRegion ==
    (step.kind = "panel" /\ step.hasChart) =>
        LET b == step.box
            r == step.region
        IN  /\ r = [x |-> b.x + 10, y |-> b.y + 111, w |-> b.w - 20, h |-> 137]
            /\ step.icon = [x |-> b.x + 10, y |-> b.y + 10, w |-> 92, h |-> 92]
            /\ Inside(r, b)
            /\ Apart(r, step.icon)
            /\ step.err = "none" =>
                  step.chart.raster = [w |-> r.w, h |-> r.h]
            /\ \A j \in 1..8 :
                  j # step.k => Apart(r, PanelBox(j - 1, 1600))

\* the last panel, Rain Forecast, got its chart pasted
C17_Witness ==
    /\ step.kind = "panel" /\ step.k = 8 /\ step.hasChart
    /\ step.err = "none" /\ pc = "convert"
    /\ step.chart.raster = [w |-> 700, h |-> 137]

\* lat * lon * 1000 of a request, truncated toward zero
TruncatedProduct(r) == TruncDiv(r.lat.v * r.lon.v, 10)

\* C18: the five series depend on latitude and longitude only: two renders
\* that differ in scalar alone yield the same series, and so do any two
\* requests with the same truncated lat * lon * 1000, every request with
\* latitude 0 or longitude 0 among them.
C18_SeriesLatLonOnly ==
    \A o \in probeOut :
        /\ (series # <<>> /\ req.lat = probe.lat /\ req.lon = probe.lon) =>
              series = o.series
        /\ (series # <<>> /\ TruncatedProduct(req) = TruncatedProduct(probe)) =>
              series = o.series

\* after a probe with longitude 0 and a latitude other than 0 was
\* rendered, a request with latitude 0, another longitude and another scalar
\* was rendered with the same series
C18_Witness ==
    /\ probeOut # {} /\ series # <<>>
    /\ probe.lon = Num(0) /\ probe.lat # Num(0)
    /\ req.lat = Num(0) /\ req.lon # Num(0) /\ req.scalar # probe.scalar
    /\ \A o \in probeOut : series = o.series

====
